---- MODULE Spec2Model ----
(***************************************************************************)
(* Model of the CODESAGE indexing engine: the Redis-backed graph store     *)
(* (Storage), the Indexer pipeline with its advisory 'indexing' lock, the  *)
(* Watcher debounce handlers and the tools' project-context switch.        *)
(*                                                                         *)
(* The specifications share the variables:                                 *)
(*   SpecLock, SpecContext, SpecWatcher - interleavings of indexProject    *)
(*               invocations with lock expiry and crashes, with the tools' *)
(*               context switch, and with the watcher handlers;            *)
(*   Spec      - the store contents under sequences of whole operations    *)
(*               (indexProject, watcher handlers, removeSymbol, file       *)
(*               mutations);                                               *)
(*   SpecImpact, SpecRank - analyzeImpact over any edges between stored    *)
(*               symbols, and setPageRanks among the store operations;     *)
(*   SpecExtract - extractBatch over any parser results;                   *)
(*   SpecDebounce - the watcher's events, debounce timers and handlers of  *)
(*               one path.                                                 *)
(***************************************************************************)
EXTENDS Integers, Sequences, FiniteSets, TLC

(***************************************************************************)
(* Bounds                                                                  *)
(***************************************************************************)
\* number of clock ticks the 600000 ms TTL of the 'indexing' lock lasts
TtlTicks == 2

None == "none"

(***************************************************************************)
(* Processes, invocations, projects                                        *)
(***************************************************************************)
\* server processes sharing the Redis store; each has one Storage and one Indexer
Procs == {"p1", "p2"}
\* indexProject request slots: i1 and i3 are requests to p1, i2 a request to p2
Invs == {"i1", "i2", "i3"}
ProcOf(i) == IF i = "i2" THEN "p2" ELSE "p1"
\* project roots passed to indexProject
Projects == {"/p/a", "/p/b"}
\* process.cwd() of the servers
Cwd == "/p/a"

\* Storage.generateProjectName: every non-alphanumeric character becomes '_'
generateProjectName(path) ==
  CASE path = "/p/a" -> "_p_a"
    [] path = "/p/b" -> "_p_b"

Namespaces == {generateProjectName(p) : p \in Projects}

\* the phases of the try block of indexProject, in program order
PipelineSteps == <<"scan", "write", "metadata", "watcher">>
\* "scan" reads the tracked files; "write" is deletion cleanup, symbol and edge
\* writes, file tracking and PageRank; "metadata" is updateProjectMetadata

VARIABLES
  pc,                 \* position of each indexProject invocation
  proj,               \* projectPath argument of each invocation
  step,               \* index into PipelineSteps of the phase to run next
  lock,               \* lock:indexing key of each namespace: NoLock or [owner, ttl]
  projectName,        \* Storage.projectName of each process
  isIndexing,         \* Indexer.isIndexing of each process
  currentProjectRoot, \* tools/utils currentProjectRoot of each process
  metaRoot,           \* the 'root' key of each namespace
  toolTarget,         \* targetProject of an in-flight ensureProjectContext
  watcherActive,      \* Watcher.watcher !== null, per process
  watcherPc,          \* debounce handler of each process: idle, pending, handling
  watcherNs,          \* namespace the running handler writes to
  alive,              \* the process is running
  symbols,            \* ids whose symbol:<id> hash holds a symbol record
  idxFile,            \* idx:file:<path> sets
  depsFrom,           \* pairs <<x, t>>: t is a member of the set deps:from:<x>
  depsTo,             \* pairs <<x, f>>: f is a member of the set deps:to:<x>
  edgeMeta,           \* the hashes deps:from:<f>:to:<t>, as records [from, to, type]
  pagerank,           \* members of the pagerank sorted set
  score,              \* score of each id in the pagerank sorted set, 0 when not a member
  rankField,          \* pageRank field of the hash symbol:<id>, 0 when the field is not set
  tracking,           \* file:<path> hashes: NoTracking or [mtime, hash]
  fs,                 \* the project tree: Absent or <<content>> for each file
  mtime,              \* modification time of each file
  scenario,           \* "fresh": store untouched; "indexed": one indexProject run and
                      \* since then file mutations only; "other": anything else
  suggestedOrder,     \* ids of the suggestedOrder of the last analyzeImpact call
  impactInput,        \* symbolIds of that call; <<>> when the store changed since
  lastRun,            \* the options <<force, incremental>> of the last indexProject run,
                      \* <<>> when another operation or a file change has followed it
  parsed,             \* what the parser returns for each file of an extractBatch call
  extracted,          \* ExtractedData.symbols of the last extractBatch call
  batch,              \* filepaths of that call, <<>> before the first call
  events,             \* types of the watcher events on WatchedPath, in arrival order;
                      \* the timer set by the k-th event is timer k
  timers,             \* timers that are scheduled: neither fired nor cleared
  debounceTimers,     \* Watcher.debounceTimers.get(WatchedPath), 0 when there is no entry
  running,            \* timers whose callback has started and not yet finished
  handled,            \* the handlers started so far, as records [timer, handler]
  superseded,         \* timers k such that event k+1 arrived before timer k fired
  batchedChanges,     \* Watcher.batchedChanges.get(WatchedPath), None when there is no entry
  batchTimer,         \* Watcher.batchTimer: 0 when null, else the event that scheduled it
  emitted,            \* the 'batchChange' emissions so far, each with the event it reports
  directlyAffected,   \* ids of directlyAffected of the last analyzeImpact call
  transitivelyAffected, \* ids of transitivelyAffected of that call
  dependentsInput,    \* <<target, depth>> of the last getDependents call, <<>> when the
                      \* store changed since
  impactCount,        \* impactCount of that call
  pathInput,          \* <<fromId, toId>> of the last findCriticalPath call, <<>> when
                      \* the store changed since
  criticalPath,       \* its result: [found |-> FALSE] for null, else the ids of the path
  computed            \* the rank map of a computePageRank call that has read the store
                      \* and not yet called setPageRanks; score 0: id not in the map

lockVars == <<pc, proj, step, lock, projectName, isIndexing,
              currentProjectRoot, metaRoot,
              toolTarget, watcherActive, watcherPc, watcherNs, alive>>

impactVars == <<suggestedOrder, impactInput>>

extractVars == <<parsed, extracted, batch>>

debounceVars == <<events, timers, debounceTimers, running, handled, superseded,
                 batchedChanges, batchTimer, emitted>>

queryVars == <<directlyAffected, transitivelyAffected, dependentsInput, impactCount,
              pathInput, criticalPath>>

rankVars == <<computed>>

extVars == <<extractVars, debounceVars, queryVars, rankVars>>

storeVars == <<symbols, idxFile, depsFrom, depsTo, edgeMeta, pagerank, score, rankField,
               tracking, fs, mtime,
               scenario, lastRun, impactVars, extVars>>

vars == <<lockVars, storeVars>>

NoLock == [owner |-> None, ttl |-> 0]

InitLock ==
  /\ pc = [i \in Invs |-> "idle"]
  /\ proj = [i \in Invs |-> Cwd]
  /\ step = [i \in Invs |-> 1]
  /\ lock = [n \in Namespaces |-> NoLock]
  /\ projectName = [p \in Procs |-> generateProjectName(Cwd)]
  /\ isIndexing = [p \in Procs |-> FALSE]
  /\ currentProjectRoot = [p \in Procs |-> None]
  /\ metaRoot = [n \in Namespaces |-> None]
  /\ toolTarget = [p \in Procs |-> None]
  /\ watcherActive = [p \in Procs |-> FALSE]
  /\ watcherPc = [p \in Procs |-> "idle"]
  /\ watcherNs = [p \in Procs |-> None]
  /\ alive = [p \in Procs |-> TRUE]

(***************************************************************************)
(* Storage: lock and project context                                       *)
(***************************************************************************)
\* Storage.k: the namespace prefix is read from projectName when the key is built
k(p) == projectName[p]

\* acquireLock with the NX option lost: the key is written whether or not it is set
acquireLockNoNX(l, n, i) == [l EXCEPT ![n] = [owner |-> i, ttl |-> TtlTicks]]

\* acquireLock with the PX option lost: the key is written without an expiry
acquireLockNoPX(l, n, i) ==
  IF l[n] = NoLock THEN [l EXCEPT ![n] = [owner |-> i, ttl |-> 0]] ELSE l

\* Storage.acquireLock: SET lockKey value PX ttl NX
acquireLock(l, n, i) ==
  IF l[n] = NoLock THEN [l EXCEPT ![n] = [owner |-> i, ttl |-> TtlTicks]] ELSE l

\* result of acquireLock: result === 'OK'
acquireOk(l, n) == l[n] = NoLock

\* Storage.releaseLock: DEL lockKey, whoever set it
releaseLock(l, n) == [l EXCEPT ![n] = NoLock]

(***************************************************************************)
(* Indexer.indexProject, one action per suspension point                   *)
(***************************************************************************)
\* between the successful acquireLock and the last releaseLock of the invocation
Inside(i) == pc[i] \in {"locked", "pipeline", "catch", "finallyErr", "finally"}

\* the call is over: 'Indexing already in progress', 'Project is already being
\* indexed by another process', stats returned, or the pipeline's error rethrown
Ended(i) == pc[i] \in {"busy", "rejected", "returned", "threw"}

\* line 43: the isIndexing guard, then the call of setProjectContext
Start(i, path) ==
  /\ alive[ProcOf(i)]
  /\ pc[i] = "idle" \/ Ended(i)
  /\ pc' = [pc EXCEPT ![i] = IF isIndexing[ProcOf(i)] THEN "busy" ELSE "setctx"]
  /\ proj' = [proj EXCEPT ![i] = path]
  /\ step' = [step EXCEPT ![i] = 1]
  /\ UNCHANGED <<lock, projectName, isIndexing, currentProjectRoot, metaRoot,
                 toolTarget, watcherActive, watcherPc, watcherNs, alive>>
  /\ UNCHANGED storeVars

\* Storage.setProjectContext: after awaiting projectContextLock the name is assigned
setProjectContext(names, p, path) == [names EXCEPT ![p] = generateProjectName(path)]

SetContext(i) ==
  /\ alive[ProcOf(i)]
  /\ pc[i] = "setctx"
  /\ projectName' = setProjectContext(projectName, ProcOf(i), proj[i])
  /\ pc' = [pc EXCEPT ![i] = "acquire"]
  /\ UNCHANGED <<proj, step, lock, isIndexing, currentProjectRoot,
                 metaRoot, toolTarget,
                 watcherActive, watcherPc, watcherNs, alive>>
  /\ UNCHANGED storeVars

\* lines 52-63: updateProjectRootCache, acquireLock('indexing', 600000), throw if refused
Acquire(i) ==
  LET p == ProcOf(i)
      n == k(p)
  IN /\ alive[p]
     /\ pc[i] = "acquire"
     /\ currentProjectRoot' = [currentProjectRoot EXCEPT ![p] = proj[i]]
     /\ lock' = acquireLock(lock, n, i)
     /\ pc' = [pc EXCEPT ![i] = IF acquireOk(lock, n) THEN "locked" ELSE "rejected"]
     /\ UNCHANGED <<proj, step, projectName, isIndexing, metaRoot, toolTarget, watcherActive, watcherPc, watcherNs, alive>>
     /\ UNCHANGED storeVars

\* lines 65-66: isIndexing = true once the lock reply has arrived
Enter(i) ==
  /\ alive[ProcOf(i)]
  /\ pc[i] = "locked"
  /\ isIndexing' = [isIndexing EXCEPT ![ProcOf(i)] = TRUE]
  /\ pc' = [pc EXCEPT ![i] = "pipeline"]
  /\ UNCHANGED <<proj, step, lock, projectName, currentProjectRoot,
                 metaRoot, toolTarget,
                 watcherActive, watcherPc, watcherNs, alive>>
  /\ UNCHANGED storeVars

\* lines 79-211: one phase of the try block; every store call builds its keys with k()
PipelineStep(i) ==
  LET p == ProcOf(i)
      n == k(p)
      s == PipelineSteps[step[i]]
  IN /\ alive[p]
     /\ pc[i] = "pipeline"
     /\ IF s = "watcher"
          THEN /\ \E incremental \in BOOLEAN :
                    watcherActive' = [watcherActive EXCEPT ![p] = @ \/ ~incremental]
               /\ UNCHANGED metaRoot
          ELSE /\ metaRoot' = IF s = "metadata"
                                THEN [metaRoot EXCEPT ![n] = proj[i]]
                                ELSE metaRoot
               /\ UNCHANGED watcherActive
     /\ IF step[i] = Len(PipelineSteps)
          THEN /\ pc' = [pc EXCEPT ![i] = "finally"]
               /\ UNCHANGED step
          ELSE /\ step' = [step EXCEPT ![i] = @ + 1]
               /\ UNCHANGED pc
     /\ UNCHANGED <<proj, lock, projectName, isIndexing, currentProjectRoot,
                    toolTarget, watcherPc, watcherNs, alive>>
     /\ UNCHANGED storeVars

\* any phase of the try block throws
Throw(i) ==
  /\ alive[ProcOf(i)]
  /\ pc[i] = "pipeline"
  /\ pc' = [pc EXCEPT ![i] = "catch"]
  /\ UNCHANGED <<proj, step, lock, projectName, isIndexing, currentProjectRoot,
                 metaRoot, toolTarget,
                 watcherActive, watcherPc, watcherNs, alive>>
  /\ UNCHANGED storeVars

\* lines 212-215: catch releases the lock and rethrows
CatchRelease(i) ==
  LET n == k(ProcOf(i))
  IN /\ alive[ProcOf(i)]
     /\ pc[i] = "catch"
     /\ lock' = releaseLock(lock, n)
     /\ pc' = [pc EXCEPT ![i] = "finallyErr"]
     /\ UNCHANGED <<proj, step, projectName, isIndexing, currentProjectRoot,
                    metaRoot, toolTarget, watcherActive,
                    watcherPc, watcherNs, alive>>
     /\ UNCHANGED storeVars

\* lines 216-220: finally clears isIndexing and releases the lock
FinallyRelease(i) ==
  LET n == k(ProcOf(i))
  IN /\ alive[ProcOf(i)]
     /\ pc[i] \in {"finally", "finallyErr"}
     /\ isIndexing' = [isIndexing EXCEPT ![ProcOf(i)] = FALSE]
     /\ lock' = releaseLock(lock, n)
     /\ pc' = [pc EXCEPT ![i] = IF pc[i] = "finally" THEN "returned" ELSE "threw"]
     /\ UNCHANGED <<proj, step, projectName, currentProjectRoot,
                    metaRoot, toolTarget, watcherActive,
                    watcherPc, watcherNs, alive>>
     /\ UNCHANGED storeVars

(***************************************************************************)
(* tools/utils ensureProjectContext(), called without a path by the tools  *)
(***************************************************************************)
\* getProjectMetadata of the current namespace gives targetProject
ToolReadMetadata(p) ==
  /\ alive[p]
  /\ toolTarget[p] = None
  /\ metaRoot[k(p)] # None
  /\ toolTarget' = [toolTarget EXCEPT ![p] = metaRoot[k(p)]]
  /\ UNCHANGED <<pc, proj, step, lock, projectName, isIndexing,
                 currentProjectRoot, metaRoot,
                 watcherActive, watcherPc, watcherNs, alive>>
  /\ UNCHANGED storeVars

\* the context is switched when targetProject differs from the cached root
ensureProjectContext(p) ==
  /\ alive[p]
  /\ toolTarget[p] # None
  /\ IF currentProjectRoot[p] # toolTarget[p]
       THEN /\ projectName' = setProjectContext(projectName, p, toolTarget[p])
            /\ currentProjectRoot' = [currentProjectRoot EXCEPT ![p] = toolTarget[p]]
       ELSE UNCHANGED <<projectName, currentProjectRoot>>
  /\ toolTarget' = [toolTarget EXCEPT ![p] = None]
  /\ UNCHANGED <<pc, proj, step, lock, isIndexing, metaRoot, watcherActive, watcherPc, watcherNs, alive>>
  /\ UNCHANGED storeVars

(***************************************************************************)
(* Watcher: debounce timer and handler (handleFileUpdate / handleFileDelete)*)
(***************************************************************************)
\* handleFileChange: a file event (re)arms the debounce timer of the path
handleFileChange(p) ==
  /\ alive[p]
  /\ watcherActive[p]
  /\ watcherPc[p] \in {"idle", "pending"}
  /\ watcherPc' = [watcherPc EXCEPT ![p] = "pending"]
  /\ UNCHANGED <<pc, proj, step, lock, projectName, isIndexing,
                 currentProjectRoot, metaRoot,
                 toolTarget, watcherActive, watcherNs, alive>>
  /\ UNCHANGED storeVars

\* the timer fires: the handler removes the old symbols of the file
WatcherFire(p) ==
  /\ alive[p]
  /\ watcherPc[p] = "pending"
  /\ watcherPc' = [watcherPc EXCEPT ![p] = "handling"]
  /\ watcherNs' = [watcherNs EXCEPT ![p] = k(p)]
  /\ UNCHANGED <<pc, proj, step, lock, projectName, isIndexing,
                 currentProjectRoot, metaRoot,
                 toolTarget, watcherActive, alive>>
  /\ UNCHANGED storeVars

\* the handler writes the new symbols, edges and tracking record and returns
WatcherDone(p) ==
  /\ alive[p]
  /\ watcherPc[p] = "handling"
  /\ watcherPc' = [watcherPc EXCEPT ![p] = "idle"]
  /\ watcherNs' = [watcherNs EXCEPT ![p] = None]
  /\ UNCHANGED <<pc, proj, step, lock, projectName, isIndexing,
                 currentProjectRoot, metaRoot,
                 toolTarget, watcherActive, alive>>
  /\ UNCHANGED storeVars

(***************************************************************************)
(* Environment: time and crashes                                           *)
(***************************************************************************)
\* Redis key expiry: a tick of the clock ages every key that was set with PX; when
\* its time is up the key is gone.  ttl = 0 is a key without an expiry (or no key)
expire(l) ==
  [n \in Namespaces |->
     IF l[n].ttl = 0 THEN l[n]
     ELSE IF l[n].ttl = 1 THEN NoLock
     ELSE [l[n] EXCEPT !.ttl = @ - 1]]

Tick ==
  /\ \E n \in Namespaces : lock[n] # NoLock
  /\ lock' = expire(lock)
  /\ UNCHANGED <<pc, proj, step, projectName, isIndexing,
                 currentProjectRoot, metaRoot,
                 toolTarget, watcherActive, watcherPc, watcherNs, alive>>
  /\ UNCHANGED storeVars

\* a process that holds a lock stops without running its catch or finally blocks
Crash(p) ==
  /\ alive[p]
  /\ \E i \in Invs, n \in Namespaces : ProcOf(i) = p /\ Inside(i) /\ lock[n].owner = i
  /\ alive' = [alive EXCEPT ![p] = FALSE]
  /\ UNCHANGED <<pc, proj, step, lock, projectName, isIndexing,
                 currentProjectRoot, metaRoot,
                 toolTarget, watcherActive, watcherPc, watcherNs>>
  /\ UNCHANGED storeVars

(***************************************************************************)
(* The project tree and what the parsers produce for it                    *)
(***************************************************************************)
\* largest modification time a file reaches
MaxMtime == 2

\* fs[f] is <<>> when the file does not exist, else <<c>> with c its content
Absent == <<>>
NoTracking == [mtime |-> -1, hash |-> <<>>]
\* the indexed project and the process that indexes it in Spec
Root == "/p/a"
Server == "p1"

FileOrder == <<"a.ts", "b.ts">>
Files == {"a.ts", "b.ts"}

\* the declarations a file can hold; a content is the set of names it declares.
\*   a.ts:  export class A {}            class D extends A {}
\*   b.ts:  import { A } from "./a";     export class B extends A {}
\* news / calls / words are the names N for which the signature contains
\* "new N(", "N(" and N as a whole word
SymOrder ==
  << [id |-> "a.ts:A:1", name |-> "A", filepath |-> "a.ts", exported |-> TRUE,
      extends |-> None, news |-> {}, calls |-> {}, words |-> {"A"}],
     [id |-> "a.ts:D:2", name |-> "D", filepath |-> "a.ts", exported |-> FALSE,
      extends |-> "A", news |-> {}, calls |-> {}, words |-> {"D", "A"}],
     [id |-> "b.ts:B:2", name |-> "B", filepath |-> "b.ts", exported |-> TRUE,
      extends |-> "A", news |-> {}, calls |-> {}, words |-> {"B", "A"}] >>

SymIds == {SymOrder[x].id : x \in DOMAIN SymOrder}
SymOf(id) == CHOOSE r \in {SymOrder[x] : x \in DOMAIN SymOrder} : r.id = id

Contents(f) == IF f = "a.ts" THEN {{}, {"A"}, {"A", "D"}} ELSE {{"B"}}

RECURSIVE Flatten(_)
Flatten(ss) == IF ss = <<>> THEN <<>> ELSE Head(ss) \o Flatten(Tail(ss))

Range(q) == {q[x] : x \in DOMAIN q}

\* SymbolExtractor.extract: the symbols of one file, in source order
ParseSymbols(f, c) ==
  SelectSeq(SymOrder, LAMBDA r : r.filepath = f /\ r.name \in c)

\* SymbolExtractor.extract: the parser's edges of one file (import statements only)
ParseDependencies(f, c) ==
  IF f = "b.ts" /\ "B" \in c
    THEN << [from |-> "b.ts", to |-> "./a", type |-> "imports"] >>
    ELSE <<>>

\* FileScanner.getFileHash: SHA-256 of the content
getFileHash(c) == <<"sha256", c>>

(***************************************************************************)
(* Storage: symbols, edges, tracking                                       *)
(***************************************************************************)
\* the ids a hash symbol:<id> or a pagerank member can have: the symbols' ids, and
\* the id sent for a record that has no id field
RankIds == SymIds \cup {"undefined"}

EmptyStore ==
  [symbols |-> {}, idxFile |-> [f \in Files |-> {}], depsFrom |-> {}, depsTo |-> {},
   edgeMeta |-> {}, pagerank |-> {}, score |-> [id \in RankIds |-> 0],
   rankField |-> [id \in RankIds |-> 0], tracking |-> [f \in Files |-> NoTracking]]

\* the store of the indexed project as one value
St ==
  [symbols |-> symbols, idxFile |-> idxFile, depsFrom |-> depsFrom, depsTo |-> depsTo,
   edgeMeta |-> edgeMeta, pagerank |-> pagerank, score |-> score, rankField |-> rankField,
   tracking |-> tracking]

\* Storage.addSymbolsBatch: HSET symbol:<id>, SADD idx:file:<filepath>
addSymbols(st, syms) ==
  [st EXCEPT !.symbols = @ \cup {r.id : r \in Range(syms)},
             !.idxFile = [f \in Files |->
                            @[f] \cup {r.id : r \in {x \in Range(syms) : x.filepath = f}}]]

\* Storage.getSymbolsByFile: the members of idx:file:<path> whose hash is not empty
getSymbolsByFile(st, f) == st.idxFile[f] \cap st.symbols

\* CLEANUP_SYMBOL_SCRIPT.  With depsFromKey = P:deps:from:<id> and
\* depsToKey = P:deps:to:<id> the script computes
\*   baseKey                                      = P:deps:from:
\*   baseKey .. ':to:' .. toId                    = P:deps:from::to:<toId>
\*   gsub(baseKey, ':from:', ':to:') .. toId      = P:deps:to:<toId>
\*   gsub(depsToKey, ':to:', ':from:') .. fromId  = P:deps:from:<id><fromId>
\*   ...                 .. ':to:' .. symbolId    = P:deps:from:<id><fromId>:to:<id>
\* (ids hold no ':to:' or ':from:' themselves)
cleanupSymbol(st, id) ==
  LET toIds == {e[2] : e \in {x \in st.depsFrom : x[1] = id}}
      fromIds == {e[2] : e \in {x \in st.depsTo : x[1] = id}}
      delEdgeKeys == {<<"", t>> : t \in toIds} \cup {<<id \o f, id>> : f \in fromIds}
      sremTo == {<<t, id>> : t \in toIds}
      sremFrom == {<<id \o f, id>> : f \in fromIds}
  IN [st EXCEPT
        !.symbols = @ \ {id},
        !.rankField[id] = 0,
        !.score[id] = 0,
        !.idxFile = [f \in Files |->
                       IF id \in st.symbols /\ f = SymOf(id).filepath THEN @[f] \ {id}
                       ELSE @[f]],
        !.edgeMeta = {m \in @ : <<m.from, m.to>> \notin delEdgeKeys},
        !.depsTo = {e \in @ \ sremTo : e[1] # id},
        !.depsFrom = {e \in @ \ sremFrom : e[1] # id},
        !.pagerank = @ \ {id}]

\* HGETALL symbol:<id> is not empty: the hash holds a symbol record or at least
\* a pageRank field
hashExists(st, id) == id \in st.symbols \/ st.rankField[id] # 0

\* Storage.removeSymbol: nothing is done when getSymbol(id) is null
removeSymbol(st, id) == IF hashExists(st, id) THEN cleanupSymbol(st, id) ELSE st

RECURSIVE removeSymbols(_, _)
removeSymbols(st, ids) ==
  IF ids = {} THEN st
  ELSE LET id == CHOOSE x \in ids : TRUE
       IN removeSymbols(removeSymbol(st, id), ids \ {id})

\* Storage.addDependenciesBatch, one edge: HSET deps:from:<from>:to:<to>,
\* SADD deps:from:<from> to, SADD deps:to:<to> from
addDependency(st, dep) ==
  [st EXCEPT
     !.edgeMeta = {m \in @ : <<m.from, m.to>> # <<dep.from, dep.to>>} \cup {dep},
     !.depsFrom = @ \cup {<<dep.from, dep.to>>},
     !.depsTo = @ \cup {<<dep.to, dep.from>>}]

RECURSIVE addDependencies(_, _)
addDependencies(st, deps) ==
  IF deps = <<>> THEN st
  ELSE addDependencies(addDependency(st, Head(deps)), Tail(deps))

\* the type field read back from deps:from:<f>:to:<t>, 'uses' when the hash is gone
edgeType(st, f, t) ==
  LET ms == {m \in st.edgeMeta : m.from = f /\ m.to = t}
  IN IF ms = {} THEN "uses" ELSE (CHOOSE m \in ms : TRUE).type

\* Storage.getAllDependencies: every member of every deps:from:<x> set
getAllDependencies(st) ==
  {[from |-> e[1], to |-> e[2], type |-> edgeType(st, e[1], e[2])] : e \in st.depsFrom}

\* setPageRanks that writes the sorted set only
setPageRanksNoMirror(st, ranks) ==
  IF DOMAIN ranks = {} THEN st
  ELSE [st EXCEPT
          !.pagerank = DOMAIN ranks,
          !.score = [id \in RankIds |-> IF id \in DOMAIN ranks THEN ranks[id] ELSE 0]]

\* Storage.setPageRanks(ranks), ranks a function from ids to scores: nothing when
\* the map is empty; else DEL pagerank, then for each entry ZADD pagerank score id
\* and HSET symbol:<id> pageRank score
setPageRanks(st, ranks) ==
  IF DOMAIN ranks = {} THEN st
  ELSE [st EXCEPT
          !.pagerank = DOMAIN ranks,
          !.score = [id \in RankIds |-> IF id \in DOMAIN ranks THEN ranks[id] ELSE 0],
          !.rankField = [id \in RankIds |-> IF id \in DOMAIN ranks THEN ranks[id] ELSE @[id]]]

\* Storage.getAllSymbols as computePageRank uses it: the id field of every
\* non-empty hash symbol:*; a hash without an id field gives the id undefined
getAllSymbolIds(st) ==
  st.symbols \cup (IF \E id \in RankIds : id \notin st.symbols /\ st.rankField[id] # 0
                    THEN {"undefined"} ELSE {})

\* the score computePageRank gives a symbol; the score is positive and grows with
\* the edges that reach the symbol from other stored symbols (the iteration's
\* arithmetic is not modelled: the score is 1 + in-degree)
pageRankOf(st, id) ==
  1 + Cardinality({e \in st.depsFrom : e[2] = id /\ e[1] \in st.symbols /\ e[2] \in st.symbols})

\* DependencyResolver.computePageRank: a score for every symbol of the store
computePageRank(st) ==
  setPageRanks(st, [id \in getAllSymbolIds(st) |-> pageRankOf(st, id)])

setFileTracking(st, f, t) == [st EXCEPT !.tracking[f] = t]
removeFileTracking(st, f) == [st EXCEPT !.tracking[f] = NoTracking]

(***************************************************************************)
(* DependencyResolver                                                      *)
(***************************************************************************)
\* DependencyResolver.determineDependencyType
determineDependencyType(from, to) ==
  IF to.name \in from.news THEN "instantiates"
  ELSE IF to.name \in from.calls THEN "calls"
  ELSE IF to.name \in from.words THEN "uses"
  ELSE None

Edge(f, t, ty) == [from |-> f, to |-> t, type |-> ty]

RECURSIVE MapSeq(_, _)
MapSeq(Op(_), q) == IF q = <<>> THEN <<>> ELSE <<Op(Head(q))>> \o MapSeq(Op, Tail(q))

\* DependencyResolver.resolveImportDependencies: extends edges to every symbol of
\* the batch that bears the parent's name
resolveImportDependencies(r, syms) ==
  LET parents == SelectSeq(syms, LAMBDA q : r.extends # None /\ q.name = r.extends)
      mk(q) == Edge(r.id, q.id, "extends")
  IN MapSeq(mk, parents)

\* DependencyResolver.resolveSymbolDependencies: then the edges to the other
\* symbols of the same file
resolveSymbolDependencies(r, syms) ==
  LET others == SelectSeq(syms, LAMBDA o : o.filepath = r.filepath /\ o.id # r.id
                                            /\ determineDependencyType(r, o) # None)
      mk(o) == Edge(r.id, o.id, determineDependencyType(r, o))
  IN resolveImportDependencies(r, syms) \o MapSeq(mk, others)

\* DependencyResolver.resolveDependencies
resolveDependencies(syms) ==
  LET one(r) == resolveSymbolDependencies(r, syms)
  IN Flatten(MapSeq(one, syms))

\* the file a relative module specifier names
resolveSpecifier(from, to) == IF to = "./a" THEN "a.ts" ELSE None

\* DependencyResolver.resolveCrossFileImports: an import whose target file has
\* symbols in the batch becomes edges from the first symbol of the importing file
\* to the exported symbols of the target; an unresolved import is kept as it is
resolveCrossFileImports(deps, syms) ==
  LET one(d) ==
        LET target == resolveSpecifier(d.from, d.to)
            reps == SelectSeq(syms, LAMBDA q : q.filepath = d.from)
            exps == SelectSeq(syms, LAMBDA q : q.filepath = target /\ q.exported)
            mk(q) == Edge(Head(reps).id, q.id, "imports")
        IN IF d.type # "imports" THEN <<>>
           ELSE IF reps # <<>> /\ exps # <<>> THEN MapSeq(mk, exps)
           ELSE <<d>>
  IN Flatten(MapSeq(one, deps))

(***************************************************************************)
(* FileScanner and Indexer                                                 *)
(***************************************************************************)
Present(tree) == {f \in Files : tree[f] # Absent}

\* Indexer.getTrackedFiles: the files of the stored symbols that have a tracking record
getTrackedFiles(st) ==
  {f \in Files : (\E id \in st.symbols : SymOf(id).filepath = f) /\ st.tracking[f] # NoTracking}

\* FileScanner.scan: hashes are computed for the changed files of an incremental scan
scan(tree, mt, incremental, st, tracked) ==
  [files |-> Present(tree),
   changed |-> IF incremental
                 THEN {f \in Present(tree) :
                         f \notin tracked \/ st.tracking[f].mtime # mt[f]}
                 ELSE {},
   deleted |-> IF incremental THEN tracked \ Present(tree) ELSE {}]

\* SymbolExtractor.extractBatch over a set of files
extractSymbols(tree, paths) ==
  LET one(f) == IF f \in paths THEN ParseSymbols(f, tree[f][1]) ELSE <<>>
  IN Flatten(MapSeq(one, FileOrder))

extractDependencies(tree, paths) ==
  LET one(f) == IF f \in paths THEN ParseDependencies(f, tree[f][1]) ELSE <<>>
  IN Flatten(MapSeq(one, FileOrder))

RECURSIVE removeFiles(_, _, _)
\* removes the stored symbols of each file, and its tracking record when untrack
removeFiles(st, paths, untrack) ==
  IF paths = {} THEN st
  ELSE LET f == CHOOSE x \in paths : TRUE
           st1 == removeSymbols(st, getSymbolsByFile(st, f))
       IN removeFiles(IF untrack THEN removeFileTracking(st1, f) ELSE st1,
                      paths \ {f}, untrack)

\* Indexer.handleDeletedFiles
handleDeletedFiles(st, deleted) == removeFiles(st, deleted, TRUE)

\* Indexer.removeOldSymbols
removeOldSymbols(st, paths) == removeFiles(st, paths, FALSE)

RECURSIVE trackFiles(_, _, _, _)
trackFiles(st, tree, mt, paths) ==
  IF paths = {} THEN st
  ELSE LET f == CHOOSE x \in paths : TRUE
       IN trackFiles(setFileTracking(st, f, [mtime |-> mt[f], hash |-> getFileHash(tree[f][1])]),
                     tree, mt, paths \ {f})

\* Indexer.updateFileTracking: only FileInfos that carry a hash are recorded
updateFileTracking(st, tree, mt, paths, hashed) ==
  IF hashed THEN trackFiles(st, tree, mt, paths) ELSE st

\* Indexer.indexProject, lines 82-99: the scan result the run works on
scanResult(st, tree, mt, force, incremental) ==
  LET tracked == getTrackedFiles(st)
      isIncremental == incremental /\ ~force /\ tracked # {}
      full == scan(tree, mt, FALSE, st, {})
  IN IF isIncremental THEN scan(tree, mt, TRUE, st, tracked)
     ELSE [files |-> full.files, changed |-> full.files, deleted |-> {}]

\* Indexer.indexProject, line 107: the files the run processes
filesToProcess(st, tree, mt, force, incremental) ==
  IF force THEN scanResult(st, tree, mt, force, incremental).files
  ELSE scanResult(st, tree, mt, force, incremental).changed

\* Indexer.indexProject, lines 82-183: the store after the run
indexProject(st, tree, mt, force, incremental) ==
  LET tracked == getTrackedFiles(st)
      isIncremental == incremental /\ ~force /\ tracked # {}
      st1 == handleDeletedFiles(st, scanResult(st, tree, mt, force, incremental).deleted)
      paths == filesToProcess(st, tree, mt, force, incremental)
      syms == extractSymbols(tree, paths)
      deps == extractDependencies(tree, paths)
      st2 == IF syms # <<>>
               THEN addSymbols(IF isIncremental THEN removeOldSymbols(st1, paths)
                               ELSE st1, syms)
               ELSE st1
      allDeps == resolveCrossFileImports(deps, syms) \o resolveDependencies(syms)
      st3 == IF deps # <<>> \/ syms # <<>> THEN addDependencies(st2, allDeps) ELSE st2
      st4 == updateFileTracking(st3, tree, mt, paths, isIncremental)
  IN computePageRank(IF paths # {} THEN st4 ELSE st1)

(***************************************************************************)
(* Watcher handlers, whole                                                 *)
(***************************************************************************)
\* Watcher.handleFileDelete
handleFileDelete(st, f) ==
  removeFileTracking(removeSymbols(st, getSymbolsByFile(st, f)), f)

\* Watcher.handleFileUpdate
handleFileUpdate(st, tree, mt, f) ==
  LET currentHash == getFileHash(tree[f][1])
      lastTracked == st.tracking[f]
      st1 == removeSymbols(st, getSymbolsByFile(st, f))
      st2 == addSymbols(st1, ParseSymbols(f, tree[f][1]))
      st3 == addDependencies(st2, ParseDependencies(f, tree[f][1]))
  IN IF lastTracked # NoTracking /\ lastTracked.hash = currentHash THEN st
     ELSE setFileTracking(st3, f, [mtime |-> mt[f], hash |-> currentHash])

(***************************************************************************)
(* Operations on the store of one project, each taken as a whole           *)
(***************************************************************************)
ctlVars == <<pc, proj, step, lock, isIndexing, toolTarget, watcherPc, watcherNs, alive>>

SetStore(st) ==
  /\ symbols' = st.symbols
  /\ idxFile' = st.idxFile
  /\ depsFrom' = st.depsFrom
  /\ depsTo' = st.depsTo
  /\ edgeMeta' = st.edgeMeta
  /\ pagerank' = st.pagerank
  /\ score' = st.score
  /\ rankField' = st.rankField
  /\ tracking' = st.tracking

\* a file is created or rewritten
WriteFile(f, c) ==
  /\ fs[f] # <<c>>
  /\ mtime[f] < MaxMtime
  /\ fs' = [fs EXCEPT ![f] = <<c>>]
  /\ mtime' = [mtime EXCEPT ![f] = @ + 1]
  /\ lastRun' = <<>>
  /\ suggestedOrder' = <<>>
  /\ impactInput' = <<>>
  /\ UNCHANGED <<symbols, idxFile, depsFrom, depsTo, edgeMeta, pagerank, score, rankField, tracking,
                 scenario, lockVars, extVars>>

\* a file is deleted
DeleteFile(f) ==
  /\ fs[f] # Absent
  /\ fs' = [fs EXCEPT ![f] = Absent]
  /\ lastRun' = <<>>
  /\ suggestedOrder' = <<>>
  /\ impactInput' = <<>>
  /\ UNCHANGED <<symbols, idxFile, depsFrom, depsTo, edgeMeta, pagerank, score, rankField, tracking,
                 mtime, scenario, lockVars, extVars>>

\* Indexer.indexProject(Root, {force, incremental}) from call to return; the lock it
\* takes at line 60 is free and is released at line 219
IndexProject(force, incremental) ==
  /\ ~isIndexing[Server]
  /\ lock[generateProjectName(Root)] = NoLock
  /\ SetStore(indexProject(St, fs, mtime, force, incremental))
  /\ projectName' = setProjectContext(projectName, Server, Root)
  /\ currentProjectRoot' = [currentProjectRoot EXCEPT ![Server] = Root]
  /\ metaRoot' = [metaRoot EXCEPT ![generateProjectName(Root)] = Root]
  /\ watcherActive' = [watcherActive EXCEPT ![Server] = @ \/ ~incremental]
  /\ scenario' = IF scenario = "fresh" THEN "indexed" ELSE "other"
  /\ lastRun' = <<force, incremental>>
  /\ suggestedOrder' = <<>>
  /\ impactInput' = <<>>
  /\ UNCHANGED <<fs, mtime, ctlVars, extVars>>

\* the debounce handler of a change or add event on f runs
HandleFileUpdate(f) ==
  /\ watcherActive[Server]
  /\ fs[f] # Absent
  /\ SetStore(handleFileUpdate(St, fs, mtime, f))
  /\ scenario' = "other"
  /\ lastRun' = <<>>
  /\ suggestedOrder' = <<>>
  /\ impactInput' = <<>>
  /\ UNCHANGED <<fs, mtime, lockVars, extVars>>

\* the debounce handler of a delete event on f runs
HandleFileDelete(f) ==
  /\ watcherActive[Server]
  /\ fs[f] = Absent
  /\ SetStore(handleFileDelete(St, f))
  /\ scenario' = "other"
  /\ lastRun' = <<>>
  /\ suggestedOrder' = <<>>
  /\ impactInput' = <<>>
  /\ UNCHANGED <<fs, mtime, lockVars, extVars>>

\* Storage.removeSymbol(id)
RemoveSymbol(id) ==
  /\ SetStore(removeSymbol(St, id))
  /\ scenario' = "other"
  /\ lastRun' = <<>>
  /\ suggestedOrder' = <<>>
  /\ impactInput' = <<>>
  /\ UNCHANGED <<fs, mtime, lockVars, extVars>>

\* largest score passed to setPageRanks by a caller other than computePageRank
MaxScore == 2

\* Storage.setPageRanks(ranks) called with any ids
SetPageRanks(ranks) ==
  /\ SetStore(setPageRanks(St, ranks))
  /\ scenario' = "other"
  /\ lastRun' = <<>>
  /\ suggestedOrder' = <<>>
  /\ impactInput' = <<>>
  /\ UNCHANGED <<fs, mtime, lockVars, extVars>>

\* nothing extracted, no watcher event yet
InitExt ==
  /\ computed = [pending |-> FALSE, ranks |-> [id \in RankIds |-> 0]]
  /\ parsed = [f \in Files |-> <<>>]
  /\ extracted = <<>>
  /\ batch = <<>>
  /\ events = <<>>
  /\ timers = {}
  /\ debounceTimers = 0
  /\ running = {}
  /\ handled = <<>>
  /\ superseded = {}
  /\ batchedChanges = None
  /\ batchTimer = 0
  /\ emitted = {}
  /\ directlyAffected = <<>>
  /\ transitivelyAffected = <<>>
  /\ dependentsInput = <<>>
  /\ impactCount = 0
  /\ pathInput = <<>>
  /\ criticalPath = [found |-> FALSE, path |-> <<>>]

InitStore ==
  /\ InitExt
  /\ symbols = EmptyStore.symbols
  /\ idxFile = EmptyStore.idxFile
  /\ depsFrom = EmptyStore.depsFrom
  /\ depsTo = EmptyStore.depsTo
  /\ edgeMeta = EmptyStore.edgeMeta
  /\ pagerank = EmptyStore.pagerank
  /\ score = EmptyStore.score
  /\ rankField = EmptyStore.rankField
  /\ tracking = EmptyStore.tracking
  /\ mtime = [f \in Files |-> 0]
  /\ scenario = "fresh"
  /\ lastRun = <<>>
  /\ suggestedOrder = <<>>
  /\ impactInput = <<>>

\* the project tree is empty when the servers start
InitEmptyTree == InitLock /\ InitStore /\ fs = [f \in Files |-> Absent]

\* any project tree
Init ==
  /\ InitLock
  /\ InitStore
  /\ fs \in [Files -> {Absent} \cup {<<c>> : c \in UNION {Contents(f) : f \in Files}}]
  /\ \A f \in Files : fs[f] = Absent \/ fs[f][1] \in Contents(f)

Next ==
  \/ \E f \in Files : \E c \in Contents(f) : WriteFile(f, c)
  \/ \E f \in Files : DeleteFile(f)
  \/ \E force \in BOOLEAN, incremental \in BOOLEAN : IndexProject(force, incremental)
  \/ \E f \in Files : HandleFileUpdate(f)
  \/ \E f \in Files : HandleFileDelete(f)
  \/ \E id \in SymIds : RemoveSymbol(id)

\* Spec: whole operations on the store of one project
Spec == Init /\ [][Next]_vars

(***************************************************************************)
(* Specifications                                                          *)
(***************************************************************************)
\* SpecLock: one indexProject request per process, the clock and crashes
LockInvs == {"i1", "i2"}

NextLock ==
  \/ \E i \in LockInvs, path \in Projects : Start(i, path)
  \/ \E i \in LockInvs : SetContext(i)
  \/ \E i \in LockInvs : Acquire(i)
  \/ \E i \in LockInvs : Enter(i)
  \/ \E i \in LockInvs : PipelineStep(i)
  \/ \E i \in LockInvs : Throw(i)
  \/ \E i \in LockInvs : CatchRelease(i)
  \/ \E i \in LockInvs : FinallyRelease(i)
  \/ Tick
  \/ \E p \in Procs : Crash(p)

SpecLock == InitEmptyTree /\ [][NextLock]_vars

\* time passes: Redis expires keys whether or not any process runs
FairSpecLock == SpecLock /\ WF_vars(Tick)

\* SpecContext: one server process serving an indexProject request and tool requests
NextContext ==
  \/ \E path \in Projects : Start("i1", path)
  \/ SetContext("i1")
  \/ Acquire("i1")
  \/ Enter("i1")
  \/ PipelineStep("i1")
  \/ Throw("i1")
  \/ CatchRelease("i1")
  \/ FinallyRelease("i1")
  \/ ToolReadMetadata("p1")
  \/ ensureProjectContext("p1")

SpecContext == InitEmptyTree /\ [][NextContext]_vars

\* SpecWatcher: one indexProject request per process and the processes' watchers
NextWatcher ==
  \/ \E i \in LockInvs, path \in Projects : Start(i, path)
  \/ \E i \in LockInvs : SetContext(i)
  \/ \E i \in LockInvs : Acquire(i)
  \/ \E i \in LockInvs : Enter(i)
  \/ \E i \in LockInvs : PipelineStep(i)
  \/ \E i \in LockInvs : Throw(i)
  \/ \E i \in LockInvs : CatchRelease(i)
  \/ \E i \in LockInvs : FinallyRelease(i)
  \/ \E p \in Procs : handleFileChange(p)
  \/ \E p \in Procs : WatcherFire(p)
  \/ \E p \in Procs : WatcherDone(p)

SpecWatcher == InitEmptyTree /\ [][NextWatcher]_vars

(***************************************************************************)
(* Claims on the lock, the project context and the watcher                 *)
(***************************************************************************)
\* the namespace an invocation is meant to work in
OwnNs(i) == generateProjectName(proj[i])

\* C1: no reachable state has two indexProject invocations on the same project
\* root both between their successful acquireLock and their last releaseLock.
ClaimC1 ==
  \A i \in Invs, j \in Invs :
    (i # j /\ proj[i] = proj[j]) => ~(Inside(i) /\ Inside(j))

\* C1, the sharper form of the failure: two invocations on the same root are both
\* running pipeline phases, neither having thrown.
BothInPipeline ==
  \E i \in Invs, j \in Invs :
    i # j /\ proj[i] = proj[j] /\ pc[i] = "pipeline" /\ pc[j] = "pipeline"

\* C2: once an invocation that acquired the lock has ended, no lock key is
\* still set by it.
ClaimC2 ==
  \A i \in Invs : Ended(i) => \A n \in Namespaces : lock[n].owner # i

\* C5: no watcher handler is writing a namespace while an indexProject run that
\* holds the 'indexing' lock of that namespace is in its pipeline.
ClaimC5 ==
  \A p \in Procs, i \in Invs :
    ~(watcherPc[p] = "handling" /\ pc[i] = "pipeline" /\ lock[watcherNs[p]].owner = i)

\* the step an invocation takes next builds a store key with k()
UsesKey(i) ==
  \/ pc[i] \in {"acquire", "catch", "finally", "finallyErr"}
  \/ pc[i] = "pipeline" /\ PipelineSteps[step[i]] # "watcher"

\* the invocation takes a step that issues a store command
KeyStep(i) ==
  /\ UsesKey(i)
  /\ <<pc[i], step[i]>>' # <<pc[i], step[i]>>
  /\ ~(pc[i] = "pipeline" /\ pc'[i] = "catch")

\* C6: every key an indexProject run touches after its setProjectContext, the
\* lock key it releases included, carries the name of the run's own project.
ClaimC6 ==
  [][\A i \in Invs : KeyStep(i) => k(ProcOf(i)) = OwnNs(i)]_vars

\* C9: acquireLock on a namespace whose lock key is set returns false and leaves
\* the key's value and expiry unchanged; indexProject then throws before
\* scanning and leaves the project metadata and every other key unchanged.
ClaimC9 ==
  [][\A i \in Invs :
       (pc[i] = "acquire" /\ pc'[i] # "acquire" /\ lock[k(ProcOf(i))] # NoLock)
         => /\ pc'[i] = "rejected"
            /\ lock' = lock
            /\ metaRoot' = metaRoot
            /\ isIndexing' = isIndexing
            /\ watcherActive' = watcherActive
            /\ St' = St]_vars

\* C9 witness: an invocation was refused while another one holds the lock of
\* the namespace it asked for.
WitnessC9 ==
  \E i \in Invs, j \in Invs :
    /\ i # j
    /\ pc[i] = "rejected"
    /\ pc[j] = "pipeline"
    /\ lock[k(ProcOf(i))].owner = j

\* C10: a lock whose holder's process has stopped does not stay set by that
\* holder: the key expires and the namespace can be locked again.
ClaimC10 ==
  \A i \in Invs, n \in Namespaces :
    (lock[n].owner = i /\ ~alive[ProcOf(i)]) ~> (lock[n].owner # i)

\* C10 witness: the holder's process stopped inside the pipeline and another
\* process has since acquired the lock of the same namespace.
WitnessC10 ==
  \E i \in Invs, j \in Invs :
    /\ ~alive[ProcOf(i)]
    /\ Inside(i)
    /\ alive[ProcOf(j)]
    /\ OwnNs(j) = OwnNs(i)
    /\ lock[OwnNs(i)].owner = j
    /\ pc[j] = "pipeline"

(***************************************************************************)
(* Claims on the store contents                                            *)
(***************************************************************************)
\* no set, membership or score of the store names id
Closed(id) ==
  /\ \A e \in depsFrom : e[1] # id /\ e[2] # id
  /\ \A e \in depsTo : e[1] # id /\ e[2] # id
  /\ id \notin pagerank

\* C3: after removeSymbol(id) the sets deps:from:<id> and deps:to:<id> do not
\* exist, id is a member of no deps:to:<t> and of no deps:from:<f> set, and id
\* is not in the pagerank sorted set.
ClaimC3 ==
  [][\A id \in SymIds : RemoveSymbol(id) => Closed(id)']_vars

\* C4: every stored edge whose type is not 'imports' has a 'from' and a 'to'
\* that are ids of symbols currently in the store.
ClaimC4 ==
  \A e \in getAllDependencies(St) :
    e.type # "imports" => (e.from \in symbols /\ e.to \in symbols)

\* C7: after an initial index and any file mutations, an incremental
\* indexProject on the existing store leaves the same symbols and the same
\* edges as a full indexProject of the mutated tree on an empty store.
ClaimC7 ==
  [][(scenario = "indexed" /\ IndexProject(FALSE, TRUE))
       => LET full == indexProject(EmptyStore, fs, mtime, FALSE, FALSE)
          IN /\ symbols' = full.symbols
             /\ getAllDependencies(St)' = getAllDependencies(full)]_vars

\* C8: after an index, the deletion of a file that had symbols and an
\* incremental indexProject, getSymbolsByFile of the file is empty and no
\* stored edge has one of the file's former symbol ids as 'from' or 'to'.
ClaimC8 ==
  [][\A f \in Files :
       (/\ scenario = "indexed"
        /\ fs[f] = Absent
        /\ getSymbolsByFile(St, f) # {}
        /\ IndexProject(FALSE, TRUE))
       => /\ getSymbolsByFile(St, f)' = {}
          /\ \A e \in getAllDependencies(St)' :
               e.from \notin idxFile[f] /\ e.to \notin idxFile[f]]_vars

\* the edges of a store value
Edges(st) == getAllDependencies(st)

\* C11: an indexProject run that follows an indexProject run made with the same
\* options, with no file change (and no other operation) in between, leaves the
\* set of symbols and the set of edges as they were.
ClaimC11 ==
  [][\A force \in BOOLEAN, incremental \in BOOLEAN :
       (/\ lastRun = <<force, incremental>>
        /\ IndexProject(force, incremental))
         => (symbols' = symbols /\ Edges(St)' = Edges(St))]_vars

(***************************************************************************)
(* GraphTraversal.analyzeImpact and its topological sort                   *)
(***************************************************************************)
\* the orders in which Redis may return the members of a set
MemberOrders ==
  {o \in [1..Cardinality(SymIds) -> SymIds] : \A id \in SymIds : \E x \in DOMAIN o : o[x] = id}

\* SMEMBERS: the members of a set, in the order ord
smembers(S, ord) == SelectSeq(ord, LAMBDA x : x \in S)

\* Storage.getDependenciesFrom / getDependenciesTo: the other ends of the edges of id
getDependenciesFrom(st, ord, id) == smembers({e[2] : e \in {x \in st.depsFrom : x[1] = id}}, ord)
getDependenciesTo(st, ord, id) == smembers({e[2] : e \in {x \in st.depsTo : x[1] = id}}, ord)

RECURSIVE affected(_, _, _, _)
\* analyzeImpact, lines 247-272: breadth-first over deps:to; allAffected keeps
\* insertion order
affected(st, ord, toVisit, allAffected) ==
  IF toVisit = <<>> THEN allAffected
  ELSE LET new == SelectSeq(getDependenciesTo(st, ord, Head(toVisit)),
                            LAMBDA f : f \notin Range(allAffected))
       IN affected(st, ord, Tail(toVisit) \o new, allAffected \o new)

RECURSIVE kahn(_, _, _, _)
\* Kahn's algorithm, lines 417-430
kahn(adjList, inDegree, queue, result) ==
  IF queue = <<>> THEN result
  ELSE LET current == Head(queue)
           newDegree == [v \in DOMAIN inDegree |->
                           IF v \in Range(adjList[current]) THEN inDegree[v] - 1
                           ELSE inDegree[v]]
           ready == SelectSeq(adjList[current], LAMBDA v : newDegree[v] = 0)
       IN kahn(adjList, newDegree, Tail(queue) \o ready, result \o <<current>>)

\* topologicalSort with the result turned round
topologicalSortReversed(st, ord, nodeIds) ==
  LET ids == Range(nodeIds)
      adjList == [id \in ids |->
                    SelectSeq(getDependenciesFrom(st, ord, id), LAMBDA t : t \in ids)]
      inDegree == [v \in ids |-> Cardinality({id \in ids : v \in Range(adjList[id])})]
      queue == SelectSeq(nodeIds, LAMBDA id : inDegree[id] = 0)
      result == kahn(adjList, inDegree, queue, <<>>)
      rev == [x \in 1..Len(result) |-> result[Len(result) + 1 - x]]
  IN SelectSeq(rev, LAMBDA id : id \in st.symbols)

\* GraphTraversal.topologicalSort: edges id -> dep.to among nodeIds, the nodes
\* without incoming edge first; ids without a symbol record are left out
topologicalSort(st, ord, nodeIds) ==
  LET ids == Range(nodeIds)
      adjList == [id \in ids |->
                    SelectSeq(getDependenciesFrom(st, ord, id), LAMBDA t : t \in ids)]
      inDegree == [v \in ids |-> Cardinality({id \in ids : v \in Range(adjList[id])})]
      queue == SelectSeq(nodeIds, LAMBDA id : inDegree[id] = 0)
      result == kahn(adjList, inDegree, queue, <<>>)
  IN SelectSeq(result, LAMBDA id : id \in st.symbols)

\* GraphTraversal.analyzeImpact: the ids of suggestedOrder
analyzeImpact(st, ord, symbolIds) ==
  topologicalSort(st, ord, affected(st, ord, symbolIds, symbolIds))

RECURSIVE impactLists(_, _, _, _, _, _)
\* analyzeImpact, lines 247-272: a newly found dependent that has a symbol record
\* goes to directlyAffected when dependents.length > 0, else to transitivelyAffected
impactLists(st, ord, toVisit, allAffected, direct, transitive) ==
  IF toVisit = <<>> THEN [directlyAffected |-> direct, transitivelyAffected |-> transitive]
  ELSE LET dependents == getDependenciesTo(st, ord, Head(toVisit))
           new == SelectSeq(dependents, LAMBDA f : f \notin Range(allAffected))
           stored == SelectSeq(new, LAMBDA f : f \in st.symbols)
       IN impactLists(st, ord, Tail(toVisit) \o new, allAffected \o new,
                      IF Len(dependents) > 0 THEN direct \o stored ELSE direct,
                      IF Len(dependents) > 0 THEN transitive ELSE transitive \o stored)

\* the lists of distinct symbol ids the getImpact handler can pass
ImpactInputs ==
  {q \in UNION {[1..n -> SymIds] : n \in 1..Cardinality(SymIds)} :
     \A x \in DOMAIN q, y \in DOMAIN q : x # y => q[x] # q[y]}

\* graph.analyzeImpact(symbolIds)
AnalyzeImpact(symbolIds, ord) ==
  /\ impactInput = <<>>
  /\ suggestedOrder' = analyzeImpact(St, ord, symbolIds)
  /\ impactInput' = symbolIds
  /\ directlyAffected' =
       impactLists(St, ord, symbolIds, symbolIds, <<>>, <<>>).directlyAffected
  /\ transitivelyAffected' =
       impactLists(St, ord, symbolIds, symbolIds, <<>>, <<>>).transitivelyAffected
  /\ UNCHANGED <<dependentsInput, impactCount, pathInput, criticalPath>>
  /\ UNCHANGED <<symbols, idxFile, depsFrom, depsTo, edgeMeta, pagerank, score, rankField, tracking,
                 fs, mtime, scenario, lastRun, lockVars, extractVars, debounceVars, rankVars>>

\* Storage.addDependencies of one edge between stored symbols
AddDependency(f, t, ty) ==
  /\ <<f, t>> \notin depsFrom
  /\ SetStore(addDependencies(St, <<Edge(f, t, ty)>>))
  /\ scenario' = "other"
  /\ lastRun' = <<>>
  /\ suggestedOrder' = <<>>
  /\ impactInput' = <<>>
  /\ directlyAffected' = <<>>
  /\ transitivelyAffected' = <<>>
  /\ dependentsInput' = <<>>
  /\ impactCount' = 0
  /\ pathInput' = <<>>
  /\ criticalPath' = [found |-> FALSE, path |-> <<>>]
  /\ UNCHANGED <<fs, mtime, lockVars, extractVars, debounceVars, rankVars>>

\* the symbols of a.ts and b.ts are stored, without edges
InitImpact ==
  /\ InitLock
  /\ InitExt
  /\ fs = [f \in Files |-> IF f = "a.ts" THEN <<{"A", "D"}>> ELSE <<{"B"}>>]
  /\ mtime = [f \in Files |-> 0]
  /\ symbols = addSymbols(EmptyStore, SymOrder).symbols
  /\ idxFile = addSymbols(EmptyStore, SymOrder).idxFile
  /\ depsFrom = {}
  /\ depsTo = {}
  /\ edgeMeta = {}
  /\ pagerank = {}
  /\ score = EmptyStore.score
  /\ rankField = EmptyStore.rankField
  /\ tracking = EmptyStore.tracking
  /\ scenario = "other"
  /\ lastRun = <<>>
  /\ suggestedOrder = <<>>
  /\ impactInput = <<>>

NextImpact ==
  \/ \E f \in SymIds, t \in SymIds : AddDependency(f, t, "calls")
  \/ \E q \in ImpactInputs, ord \in MemberOrders : AnalyzeImpact(q, ord)

\* SpecImpact: any edges between three stored symbols, and analyzeImpact calls
SpecImpact == InitImpact /\ [][NextImpact]_vars

\* position of id in suggestedOrder
Pos(id) == CHOOSE x \in DOMAIN suggestedOrder : suggestedOrder[x] = id

\* C12: suggestedOrder holds no two symbols u, v with a stored edge u -> v in
\* which u comes after v.
ClaimC12 ==
  \A x \in DOMAIN suggestedOrder, y \in DOMAIN suggestedOrder :
    <<suggestedOrder[x], suggestedOrder[y]>> \in depsFrom => ~(x > y)

\* C12 witness: analyzeImpact returned all three symbols and two of the edges
\* among them form a chain.
WitnessC12 ==
  /\ Len(suggestedOrder) = 3
  /\ \E u \in SymIds, v \in SymIds, w \in SymIds :
       u # v /\ v # w /\ u # w /\ <<u, v>> \in depsFrom /\ <<v, w>> \in depsFrom

\* C13: for stored edges X -> Y and Y -> Z among the symbols of suggestedOrder,
\* Z comes before Y and Y before X.
ClaimC13 ==
  \A X \in Range(suggestedOrder), Y \in Range(suggestedOrder), Z \in Range(suggestedOrder) :
    (X # Y /\ Y # Z /\ X # Z /\ <<X, Y>> \in depsFrom /\ <<Y, Z>> \in depsFrom)
      => (Pos(Z) < Pos(Y) /\ Pos(Y) < Pos(X))

\* both files exist and nothing is stored
InitRank ==
  /\ InitLock
  /\ InitStore
  /\ fs = [f \in Files |-> IF f = "a.ts" THEN <<{"A", "D"}>> ELSE <<{"B"}>>]

NextRank ==
  \/ \E f \in Files : DeleteFile(f)
  \/ \E force \in BOOLEAN, incremental \in BOOLEAN : IndexProject(force, incremental)
  \/ \E f \in Files : HandleFileUpdate(f)
  \/ \E f \in Files : HandleFileDelete(f)
  \/ \E id \in SymIds : RemoveSymbol(id)
  \/ \E S \in SUBSET SymIds, v \in 1..MaxScore : SetPageRanks([id \in S |-> v])

\* SpecRank: the operations that write symbol hashes and the pagerank sorted set
SpecRank == InitRank /\ [][NextRank]_vars

ClaimC15 ==
  LET tracked == getTrackedFiles(St)
      withMap == scan(fs, mtime, TRUE, St, tracked)
      without == scan(fs, mtime, FALSE, St, {})
  IN /\ withMap.changed = {f \in withMap.files : f \notin tracked \/ tracking[f].mtime # mtime[f]}
     /\ withMap.deleted = tracked \ withMap.files
     /\ without.changed = without.files
     /\ without.deleted = {}

(***************************************************************************)
(* The extractor: SymbolExtractor.extractBatch over parser results          *)
(***************************************************************************)
\* most symbols a parse returns for one file, and the last line of a file
MaxSyms == 2
MaxLine == 2

\* names of the declarations of a file
Names == {"A", "m"}

\* absolute path of a file of the project, as FileScanner.scan returns it
AbsPath(f) ==
  CASE f = "a.ts" -> "/p/a/a.ts"
    [] f = "b.ts" -> "/p/a/b.ts"

\* path.relative(process.cwd(), filepath)
relative(filepath) ==
  CASE filepath = "/p/a/a.ts" -> "a.ts"
    [] filepath = "/p/a/b.ts" -> "b.ts"

\* the string `${path}:${name}:${n}`, held as its three parts
idString(path, name, n) == [path |-> path, name |-> name, line |-> n]

\* a bare name as a string of the same kind: no path and no line part
nameString(name) == [path |-> "", name |-> name, line |-> 0]

\* parent: undefined
NoParent == [path |-> "", name |-> "", line |-> 0]

\* the declarations of a file in the order walkNode visits them: name, 1-based
\* line, and the position in the list of the enclosing declaration (0: top level)
ParseShapes ==
  {q \in UNION {[1..n -> [name : Names, line : 1..MaxLine, up : 0..(MaxSyms - 1)]] :
                  n \in 0..MaxSyms} :
     \A i \in DOMAIN q :
       /\ q[i].up < i
       /\ q[i].up > 0 => q[q[i].up].line <= q[i].line}

\* parser.parse: id is `${context.filepath}:${name}:${node.startPosition.row}`,
\* location.start.line is row + 1, parent is the id of the enclosing symbol
parse(filepath, shape) ==
  [i \in DOMAIN shape |->
     [id |-> idString(filepath, shape[i].name, shape[i].line - 1),
      name |-> shape[i].name,
      line |-> shape[i].line,
      parent |-> IF shape[i].up = 0 THEN NoParent
                 ELSE idString(filepath, shape[shape[i].up].name,
                               shape[shape[i].up].line - 1),
      children |-> <<>>]]

\* index of the last element of list whose key(element) is str, 0 when there is none
lastWith(list, key(_), str) ==
  LET hits == {i \in DOMAIN list : key(list[i]) = str}
  IN IF hits = {} THEN 0 ELSE CHOOSE i \in hits : \A j \in hits : j <= i

\* second pass of processSymbols from position i on: symbolMap is keyed by name
RECURSIVE linkByName(_, _)
linkByName(list, i) ==
  IF i > Len(list) THEN list
  ELSE LET symbol == list[i]
           p == lastWith(list, LAMBDA x : nameString(x.name), symbol.parent)
       IN IF symbol.parent # NoParent /\ p # 0
          THEN linkByName([list EXCEPT ![p].children = Append(@, symbol.id),
                                       ![i].parent = list[p].id], i + 1)
          ELSE linkByName(list, i + 1)

\* SymbolExtractor.processSymbols
processSymbols(syms, filepath) ==
  linkByName([i \in DOMAIN syms |->
                [id |-> idString(relative(filepath), syms[i].name, syms[i].line),
                 name |-> syms[i].name,
                 line |-> syms[i].line,
                 parent |-> syms[i].parent,
                 children |-> <<>>]], 1)

\* SymbolExtractor.extract, the symbols of the ParseResult
extract(prs, f) == processSymbols(prs[f], AbsPath(f))

\* SymbolExtractor.processFile: the symbols whose id was not seen yet are appended
RECURSIVE processFile(_, _, _)
processFile(allSymbols, syms, i) ==
  IF i > Len(syms) THEN allSymbols
  ELSE IF \E x \in DOMAIN allSymbols : allSymbols[x].id = syms[i].id
       THEN processFile(allSymbols, syms, i + 1)
       ELSE processFile(Append(allSymbols, syms[i]), syms, i + 1)

\* SymbolExtractor.establishRelationships from position i on: symbolMap is keyed by id
RECURSIVE establishRelationships(_, _)
establishRelationships(list, i) ==
  IF i > Len(list) THEN list
  ELSE LET symbol == list[i]
           p == lastWith(list, LAMBDA x : x.id, symbol.parent)
       IN IF /\ symbol.parent # NoParent
             /\ p # 0
             /\ \A x \in DOMAIN list[p].children : list[p].children[x] # symbol.id
          THEN establishRelationships([list EXCEPT ![p].children = Append(@, symbol.id)],
                                      i + 1)
          ELSE establishRelationships(list, i + 1)

\* the files of filepaths from position i on are processed in turn
RECURSIVE collect(_, _, _, _)
collect(prs, filepaths, i, allSymbols) ==
  IF i > Len(filepaths) THEN allSymbols
  ELSE collect(prs, filepaths, i + 1, processFile(allSymbols, extract(prs, filepaths[i]), 1))

\* SymbolExtractor.extractBatch, the symbols of the ExtractedData
extractBatch(prs, filepaths) ==
  establishRelationships(collect(prs, filepaths, 1, <<>>), 1)

\* batches of files
Batches ==
  {q \in UNION {[1..n -> Files] : n \in 1..Cardinality(Files)} :
     \A x \in DOMAIN q, y \in DOMAIN q : x # y => q[x] # q[y]}

\* the source of f is such that the parser returns parse(f, shape)
Parse(f, shape) ==
  /\ batch = <<>>
  /\ parsed[f] = <<>>
  /\ shape # <<>>
  /\ parsed' = [parsed EXCEPT ![f] = parse(AbsPath(f), shape)]
  /\ UNCHANGED <<extracted, batch, debounceVars, lockVars, queryVars, rankVars>>
  /\ UNCHANGED <<symbols, idxFile, depsFrom, depsTo, edgeMeta, pagerank, score, rankField,
                 tracking, fs, mtime, scenario, lastRun, impactVars>>

\* symbolExtractor.extractBatch(filepaths)
ExtractBatch(filepaths) ==
  /\ batch = <<>>
  /\ extracted' = extractBatch(parsed, filepaths)
  /\ batch' = filepaths
  /\ UNCHANGED <<parsed, debounceVars, lockVars, queryVars, rankVars>>
  /\ UNCHANGED <<symbols, idxFile, depsFrom, depsTo, edgeMeta, pagerank, score, rankField,
                 tracking, fs, mtime, scenario, lastRun, impactVars>>

NextExtract ==
  \/ \E f \in Files, shape \in ParseShapes : Parse(f, shape)
  \/ \E filepaths \in Batches : ExtractBatch(filepaths)

\* SpecExtract: extractBatch over any parser results for the files of the project
SpecExtract == InitRank /\ [][NextExtract]_vars

\* C16: in the symbols extractBatch returns, c.parent = p.id exactly when c.id is
\* in p.children, and every symbol with a parent is listed in the children of an
\* output symbol whose id is that parent value.
ClaimC16 ==
  batch # <<>> =>
    /\ \A c \in Range(extracted), p \in Range(extracted) :
         (c.parent = p.id) <=> (\E x \in DOMAIN p.children : p.children[x] = c.id)
    /\ \A c \in Range(extracted) :
         c.parent # NoParent =>
           \E p \in Range(extracted) :
             p.id = c.parent /\ \E x \in DOMAIN p.children : p.children[x] = c.id

\* C17: after removeSymbol(id) of a stored symbol no edge metadata record exists
\* for a pair (id, t) with t in deps:from:<id>, nor for a pair (f, id) with f in
\* deps:to:<id>, the sets being those of the moment of the call.
ClaimC17 ==
  [][\A id \in SymIds :
       (id \in symbols /\ RemoveSymbol(id))
         => \A e \in edgeMeta' :
              /\ ~(e.from = id /\ <<id, e.to>> \in depsFrom)
              /\ ~(e.to = id /\ <<id, e.from>> \in depsTo)]_vars

\* C18: after an indexProject run, full, forced or incremental, the symbols
\* stored for each file the run processed are exactly the symbols of the parse
\* of the file's current content, also when that parse yields no symbol.
ClaimC18 ==
  [][\A force \in BOOLEAN, incremental \in BOOLEAN :
       IndexProject(force, incremental)
         => \A f \in filesToProcess(St, fs, mtime, force, incremental) :
              getSymbolsByFile(St', f) = {r.id : r \in Range(ParseSymbols(f, fs[f][1]))}]_vars

\* C19: after an indexProject run, full, forced or incremental, every file the
\* run processed has a file-tracking record that holds the scanned mtime and
\* the hash of the file.
ClaimC19 ==
  [][\A force \in BOOLEAN, incremental \in BOOLEAN :
       IndexProject(force, incremental)
         => \A f \in filesToProcess(St, fs, mtime, force, incremental) :
              tracking'[f] = [mtime |-> mtime[f], hash |-> getFileHash(fs[f][1])]]_vars

(***************************************************************************)
(* The watcher's debounce timers of one path                               *)
(***************************************************************************)
\* number of watcher events on the path
MaxEvents == 3

\* the path the events are about
WatchedPath == "a.ts"

\* the type chokidar reports: 'add', 'change', or 'delete' for unlink
EventTypes == {"add", "change", "delete"}

\* the handler the timer callback of an event of this type calls
handlerOf(type) == IF type = "delete" THEN "handleFileDelete" ELSE "handleFileUpdate"

\* Watcher.handleFileChange(WatchedPath, type): the change is put in the batch and
\* the batch timer is set anew (scheduleBatchProcessing); the timer found in
\* debounceTimers is cleared (no effect on a timer that has fired), a new timer is
\* set and stored
WatchEvent(type) ==
  /\ watcherActive[Server]
  /\ Len(events) < MaxEvents
  /\ (type = "delete") <=> (fs[WatchedPath] = Absent)
  /\ events' = Append(events, type)
  /\ timers' = (timers \ {debounceTimers}) \cup {Len(events) + 1}
  /\ debounceTimers' = Len(events) + 1
  /\ superseded' = IF Len(events) \in timers THEN superseded \cup {Len(events)}
                   ELSE superseded
  /\ batchedChanges' = type
  /\ batchTimer' = Len(events) + 1
  /\ UNCHANGED <<running, handled, emitted, extractVars, lockVars, queryVars, rankVars>>
  /\ UNCHANGED <<symbols, idxFile, depsFrom, depsTo, edgeMeta, pagerank, score, rankField,
                 tracking, fs, mtime, scenario, lastRun, impactVars>>

\* debounceMs after it was set, timer n fires: its callback starts the handler
TimerFire(n) ==
  /\ n \in timers
  /\ timers' = timers \ {n}
  /\ running' = running \cup {n}
  /\ handled' = Append(handled, [timer |-> n, handler |-> handlerOf(events[n])])
  /\ UNCHANGED <<events, debounceTimers, superseded, batchedChanges, batchTimer, emitted,
                 extractVars, lockVars, queryVars, rankVars>>
  /\ UNCHANGED <<symbols, idxFile, depsFrom, depsTo, edgeMeta, pagerank, score, rankField,
                 tracking, fs, mtime, scenario, lastRun, impactVars>>

\* the handler of timer n has done its work on the store (an error, such as the
\* file being gone when handleFileUpdate reads it, is caught), and the finally
\* block deletes the debounceTimers entry and the batchedChanges entry of the path
HandlerDone(n) ==
  /\ n \in running
  /\ running' = running \ {n}
  /\ debounceTimers' = 0
  /\ batchedChanges' = None
  /\ SetStore(IF handlerOf(events[n]) = "handleFileDelete"
                THEN handleFileDelete(St, WatchedPath)
                ELSE IF fs[WatchedPath] # Absent
                       THEN handleFileUpdate(St, fs, mtime, WatchedPath)
                       ELSE St)
  /\ scenario' = "other"
  /\ lastRun' = <<>>
  /\ suggestedOrder' = <<>>
  /\ impactInput' = <<>>
  /\ UNCHANGED <<events, timers, handled, superseded, batchTimer, emitted,
                 extractVars, fs, mtime, lockVars, queryVars, rankVars>>

\* the batch timer fires, 2 * debounceMs after the last event set it and so after
\* the debounce timer of that event: the changes of the batch are emitted as
\* 'batchChange' grouped by type, and the batch is cleared
BatchFire ==
  /\ batchTimer # 0
  /\ batchTimer \notin timers
  /\ emitted' = IF batchedChanges # None
                  THEN emitted \cup {[files |-> {WatchedPath}, type |-> batchedChanges,
                                      event |-> Len(events)]}
                  ELSE emitted
  /\ batchedChanges' = None
  /\ batchTimer' = 0
  /\ UNCHANGED <<events, timers, debounceTimers, running, handled, superseded,
                 extractVars, lockVars, queryVars, rankVars>>
  /\ UNCHANGED <<symbols, idxFile, depsFrom, depsTo, edgeMeta, pagerank, score, rankField,
                 tracking, fs, mtime, scenario, lastRun, impactVars>>

\* the indexProject call that starts the watcher (index.ts 195-197)
StartWatching == ~watcherActive[Server] /\ IndexProject(FALSE, FALSE)

NextDebounce ==
  \/ \E c \in Contents(WatchedPath) : WriteFile(WatchedPath, c)
  \/ DeleteFile(WatchedPath)
  \/ StartWatching
  \/ \E type \in EventTypes : WatchEvent(type)
  \/ \E n \in 1..MaxEvents : TimerFire(n)
  \/ \E n \in 1..MaxEvents : HandlerDone(n)
  \/ BatchFire

\* SpecDebounce: file changes of one path, the indexProject call that starts the
\* watcher, the watcher's events about the path, the debounce timers, the
\* handlers they start and the batch timer
SpecDebounce == InitRank /\ [][NextDebounce]_vars

Quiescent == timers = {} /\ running = {} /\ batchTimer = 0

\* C21: the last event on the path, which no later event supersedes, is reported
\* in a 'batchChange' emission of its type that lists the path; once the watcher
\* is quiescent the emission has happened, whatever the order in which the
\* debounce handler finished and the batch timer fired.
ClaimC21 ==
  (Quiescent /\ events # <<>>) =>
    \E e \in emitted :
      /\ e.event = Len(events)
      /\ e.type = events[Len(events)]
      /\ WatchedPath \in e.files

\* C26: for the watched path at most one debounce timer is pending at any time,
\* and at most one handler of an event on the path is executing at any time.
ClaimC26 == Cardinality(timers) <= 1 /\ Cardinality(running) <= 1

\* C22: for every ordered pair (s, t) of distinct symbols of one file,
\* resolveDependencies over the symbols of the tree emits at most one edge s -> t,
\* and when the signature of s has 'extends <name of t>' every edge it emits for
\* s -> t has type 'extends'.
ClaimC22 ==
  LET deps == resolveDependencies(extractSymbols(fs, Present(fs)))
      sameFile(d) == SymOf(d.from).filepath = SymOf(d.to).filepath /\ d.from # d.to
  IN /\ \A x \in DOMAIN deps, y \in DOMAIN deps :
          (sameFile(deps[x]) /\ deps[x].from = deps[y].from /\ deps[x].to = deps[y].to)
            => x = y
     /\ \A x \in DOMAIN deps :
          (sameFile(deps[x]) /\ SymOf(deps[x].from).extends = SymOf(deps[x].to).name)
            => deps[x].type = "extends"

\* ids of the symbols in the store that analyzeImpact found affected: the
\* symbols of impactInput and every symbol that reaches one of them over edges
RECURSIVE reaches(_, _)
reaches(S, n) ==
  IF n = 0 THEN S
  ELSE reaches(S \cup {e[1] : e \in {x \in depsFrom : x[2] \in S}}, n - 1)

allAffected == reaches(Range(impactInput), Cardinality(SymIds))

\* C29: suggestedOrder holds every affected symbol that exists in the store
\* exactly once, also when there are cycles among the affected symbols.
ClaimC29 ==
  impactInput # <<>> =>
    /\ Range(suggestedOrder) = allAffected \cap symbols
    /\ Len(suggestedOrder) = Cardinality(allAffected \cap symbols)

\* C30: directlyAffected is exactly the set of symbols outside impactInput with a
\* stored edge to a symbol of impactInput, transitivelyAffected is exactly the
\* set of the other affected symbols outside impactInput, and the two lists
\* are disjoint.
ClaimC30 ==
  impactInput # <<>> =>
    LET S == Range(impactInput)
        direct == {f \in symbols \ S : \E t \in S : <<f, t>> \in depsFrom}
    IN /\ Range(directlyAffected) = direct
       /\ Range(transitivelyAffected) = ((allAffected \cap symbols) \ S) \ direct
       /\ Range(directlyAffected) \cap Range(transitivelyAffected) = {}

(***************************************************************************)
(* Queries over the stored graph                                           *)
(***************************************************************************)
\* the ids an edge can join: the symbols' ids and the specifier of an import
\* that was stored unresolved
GraphIds == SymIds \cup {"./a"}

\* the orders in which SMEMBERS can return ids
GraphOrders ==
  {o \in [1..Cardinality(GraphIds) -> GraphIds] :
     \A id \in GraphIds : \E x \in DOMAIN o : o[x] = id}

\* largest depth passed to getDependents
MaxDepth == 2

RECURSIVE dfs(_, _, _, _, _, _)
RECURSIVE dfsEach(_, _, _, _, _, _)
\* DependencyResolver.getDependents, the closure dfs: the visited set after
\* dfs(current, currentDepth)
dfs(st, ord, current, currentDepth, depth, visited) ==
  IF currentDepth > depth \/ current \in visited THEN visited
  ELSE dfsEach(st, ord, getDependenciesTo(st, ord, current), currentDepth, depth,
               visited \cup {current})

\* the loop 'for (const dep of deps) await dfs(dep.from, currentDepth + 1)'
dfsEach(st, ord, deps, currentDepth, depth, visited) ==
  IF deps = <<>> THEN visited
  ELSE dfsEach(st, ord, Tail(deps), currentDepth, depth,
               dfs(st, ord, Head(deps), currentDepth + 1, depth, visited))

\* DependencyResolver.getDependents(target, depth).impactCount
getDependents(st, ord, target, depth) ==
  Cardinality(dfs(st, ord, target, 0, depth, {})) - 1

\* dependencyResolver.getDependents(target, depth)
GetDependents(target, depth, ord) ==
  /\ dependentsInput = <<>>
  /\ dependentsInput' = <<target, depth>>
  /\ impactCount' = getDependents(St, ord, target, depth)
  /\ UNCHANGED <<directlyAffected, transitivelyAffected, pathInput, criticalPath>>
  /\ UNCHANGED <<symbols, idxFile, depsFrom, depsTo, edgeMeta, pagerank, score, rankField,
                 tracking, fs, mtime, scenario, lastRun, impactVars, lockVars,
                 extractVars, debounceVars, rankVars>>

\* Storage.addDependencies of one edge between two different ids
AddEdge(f, t) == f # t /\ AddDependency(f, t, "calls")

NextDependents ==
  \/ \E f \in GraphIds, t \in GraphIds : AddEdge(f, t)
  \/ \E target \in GraphIds, depth \in 0..MaxDepth, ord \in GraphOrders :
       GetDependents(target, depth, ord)

\* SpecDependents: any edges between four ids, and getDependents calls
SpecDependents == InitImpact /\ [][NextDependents]_vars

\* the ids whose shortest distance to S over reversed edges is at most n
RECURSIVE within(_, _)
within(S, n) ==
  IF n = 0 THEN S
  ELSE within(S \cup {e[2] : e \in {x \in depsTo : x[1] \in S}}, n - 1)

\* C23: impactCount of getDependents(target, depth) is the number of ids other
\* than target whose shortest distance to target over reversed edges is at most
\* depth, whatever the order in which the store returns the dependents.
ClaimC23 ==
  dependentsInput # <<>> =>
    impactCount = Cardinality(within({dependentsInput[1]}, dependentsInput[2])
                                \ {dependentsInput[1]})

(***************************************************************************)
(* GraphTraversal.findCriticalPath                                         *)
(***************************************************************************)
RECURSIVE factorial(_)
factorial(n) == IF n = 0 THEN 1 ELSE n * factorial(n - 1)

\* a score s of the model stands for the PageRank s * 0.0005, so that a symbol can
\* rank below, at or above the 0.001 taken for an id without score; costs are
\* counted in units of 1 / CostUnit, so that every cost is a whole number
CostUnit == factorial(MaxScore)

\* Storage.getPageRanks().get(id), 0 when the sorted set has no such member
getPageRank(st, id) == IF id \in st.pagerank THEN st.score[id] ELSE 0

\* edgeCost = 1 / (targetRank * 1000) with targetRank = pageRanks.get(dep.to) || 0.001:
\* 1 for an id without score, 2 / s for the score s
edgeCost(st, to) ==
  IF getPageRank(st, to) = 0 THEN CostUnit
  ELSE (2 * CostUnit) \div getPageRank(st, to)

\* the search without 'queue.sort': the queue stays in insertion order
sortQueueNot(queue, distance) == queue

\* queue.sort((a, b) => distance(a) - distance(b)); the sort is stable
RECURSIVE sortQueue(_, _)
sortQueue(queue, distance) ==
  IF queue = <<>> THEN <<>>
  ELSE LET rest == sortQueue(SubSeq(queue, 1, Len(queue) - 1), distance)
           x == queue[Len(queue)]
           pos == Cardinality({i \in DOMAIN rest : distance[rest[i]] <= distance[x]})
       IN SubSeq(rest, 1, pos) \o <<x>> \o SubSeq(rest, pos + 1, Len(rest))

\* the loop over the dependencies of current, lines 164-177; a distance of -1
\* stands for an id that has no entry in the distance map
RECURSIVE relax(_, _, _, _)
relax(st, deps, current, q) ==
  IF deps = <<>> THEN q
  ELSE LET to == Head(deps)
           newDist == q.distance[current] + edgeCost(st, to)
       IN IF to \notin q.visited /\ (q.distance[to] = -1 \/ newDist < q.distance[to])
          THEN relax(st, Tail(deps), current,
                     [queue |-> Append(q.queue, to),
                      visited |-> q.visited \cup {to},
                      parent |-> [q.parent EXCEPT ![to] = current],
                      distance |-> [q.distance EXCEPT ![to] = newDist]])
          ELSE relax(st, Tail(deps), current, q)

\* the path read back over the parent map, lines 142-149
RECURSIVE pathTo(_, _)
pathTo(parent, node) ==
  IF node = None THEN <<>> ELSE Append(pathTo(parent, parent[node]), node)

\* the while loop, lines 135-179; the ids of the path are turned into the
\* symbols that getSymbol finds
RECURSIVE search(_, _, _, _)
search(st, ord, toId, q) ==
  IF q.queue = <<>> THEN [found |-> FALSE, path |-> <<>>]
  ELSE LET sorted == sortQueue(q.queue, q.distance)
           current == Head(sorted)
       IN IF current = toId
          THEN [found |-> TRUE,
                path |-> SelectSeq(pathTo(q.parent, toId), LAMBDA id : id \in st.symbols)]
          ELSE search(st, ord, toId,
                      relax(st, getDependenciesFrom(st, ord, current), current,
                            [q EXCEPT !.queue = Tail(sorted)]))

\* GraphTraversal.findCriticalPath(fromId, toId)
findCriticalPath(st, ord, fromId, toId) ==
  search(st, ord, toId,
         [queue |-> <<fromId>>,
          visited |-> {fromId},
          parent |-> [id \in GraphIds |-> None],
          distance |-> [id \in GraphIds |-> IF id = fromId THEN 0 ELSE -1]])

\* the symbols the path is asked for
PathFrom == "b.ts:B:2"
PathTo == "a.ts:A:1"

\* graph.findCriticalPath(PathFrom, PathTo)
FindCriticalPath(ord) ==
  /\ pathInput = <<>>
  /\ pathInput' = <<PathFrom, PathTo>>
  /\ criticalPath' = findCriticalPath(St, ord, PathFrom, PathTo)
  /\ UNCHANGED <<directlyAffected, transitivelyAffected, dependentsInput, impactCount>>
  /\ UNCHANGED <<symbols, idxFile, depsFrom, depsTo, edgeMeta, pagerank, score, rankField,
                 tracking, fs, mtime, scenario, lastRun, impactVars, lockVars,
                 extractVars, debounceVars, rankVars>>

\* the three symbols are stored without edges, each with a PageRank score
InitPath ==
  /\ InitLock
  /\ InitExt
  /\ fs = [f \in Files |-> IF f = "a.ts" THEN <<{"A", "D"}>> ELSE <<{"B"}>>]
  /\ mtime = [f \in Files |-> 0]
  /\ symbols = addSymbols(EmptyStore, SymOrder).symbols
  /\ idxFile = addSymbols(EmptyStore, SymOrder).idxFile
  /\ depsFrom = {}
  /\ depsTo = {}
  /\ edgeMeta = {}
  /\ pagerank = SymIds
  /\ score \in [RankIds -> 0..MaxScore]
  /\ \A id \in RankIds : score[id] = 0 <=> id \notin SymIds
  /\ rankField = score
  /\ tracking = EmptyStore.tracking
  /\ scenario = "other"
  /\ lastRun = <<>>
  /\ suggestedOrder = <<>>
  /\ impactInput = <<>>

\* edges into PathFrom and out of PathTo play no part in the search (PathFrom is
\* visited from the start, PathTo is never expanded) and are left out
NextPath ==
  \/ \E f \in GraphIds \ {PathTo}, t \in GraphIds \ {PathFrom} : AddEdge(f, t)
  \/ \E ord \in GraphOrders : FindCriticalPath(ord)

\* SpecPath: any edges that matter for the paths from PathFrom to PathTo, any
\* scores of the symbols, and findCriticalPath calls
SpecPath == InitPath /\ [][NextPath]_vars

\* the paths without repeated id from PathFrom to PathTo over deps:from edges
Paths ==
  {P \in UNION {[1..n -> GraphIds] : n \in 2..Cardinality(GraphIds)} :
     /\ P[1] = PathFrom
     /\ P[Len(P)] = PathTo
     /\ \A x \in DOMAIN P, y \in DOMAIN P : x # y => P[x] # P[y]
     /\ \A x \in 1..(Len(P) - 1) : <<P[x], P[x + 1]>> \in depsFrom}

\* total cost of a path: the costs of the edges, each that of its target
RECURSIVE pathCost(_)
pathCost(P) ==
  IF Len(P) <= 1 THEN 0
  ELSE pathCost(SubSeq(P, 1, Len(P) - 1)) + edgeCost(St, P[Len(P)])

GuardInvs == {"i1", "i3"}

NextGuard ==
  \/ \E i \in GuardInvs, path \in Projects : Start(i, path)
  \/ \E i \in GuardInvs : SetContext(i)
  \/ \E i \in GuardInvs : Acquire(i)
  \/ \E i \in GuardInvs : Enter(i)
  \/ \E i \in GuardInvs : PipelineStep(i)
  \/ \E i \in GuardInvs : Throw(i)
  \/ \E i \in GuardInvs : CatchRelease(i)
  \/ \E i \in GuardInvs : FinallyRelease(i)

\* SpecGuard: the interleavings of two indexProject calls on one Indexer; the
\* lock never expires and nothing crashes
SpecGuard == InitEmptyTree /\ [][NextGuard]_vars

\* C25: two indexProject calls on one Indexer are never both in the try block of
\* the pipeline, and isIndexing is true as long as a call is in it.
ClaimC25 ==
  /\ \A i \in GuardInvs, j \in GuardInvs :
       i # j => ~(pc[i] = "pipeline" /\ pc[j] = "pipeline")
  /\ \A i \in GuardInvs : pc[i] = "pipeline" => isIndexing[ProcOf(i)]

(***************************************************************************)
(* computePageRank next to removals                                        *)
(***************************************************************************)
\* computePageRank up to 'await storage.setPageRanks(rank)': getAllSymbols and
\* getAllDependencies are read (as one step) and the scores computed
ReadRanks ==
  /\ ~computed.pending
  /\ computed' = [pending |-> TRUE,
                  ranks |-> [id \in RankIds |->
                               IF id \in getAllSymbolIds(St) THEN pageRankOf(St, id) ELSE 0]]
  /\ UNCHANGED <<lockVars, symbols, idxFile, depsFrom, depsTo, edgeMeta, pagerank, score,
                 rankField, tracking, fs, mtime, scenario, lastRun, impactVars,
                 extractVars, debounceVars, queryVars>>

\* the setPageRanks call of that computePageRank
WriteRanks ==
  /\ computed.pending
  /\ SetStore(setPageRanks(St, [id \in {x \in RankIds : computed.ranks[x] # 0} |->
                                  computed.ranks[id]]))
  /\ computed' = [pending |-> FALSE, ranks |-> [id \in RankIds |-> 0]]
  /\ scenario' = "other"
  /\ lastRun' = <<>>
  /\ suggestedOrder' = <<>>
  /\ impactInput' = <<>>
  /\ UNCHANGED <<fs, mtime, lockVars, extractVars, debounceVars, queryVars>>

NextRace ==
  \/ \E f \in Files : DeleteFile(f)
  \/ \E force \in BOOLEAN, incremental \in BOOLEAN : IndexProject(force, incremental)
  \/ \E f \in Files : HandleFileUpdate(f)
  \/ \E f \in Files : HandleFileDelete(f)
  \/ \E id \in SymIds : RemoveSymbol(id)
  \/ ReadRanks
  \/ WriteRanks

\* SpecRace: a computePageRank call whose read and write are separate steps, next
\* to the operations that remove symbols
SpecRace == InitRank /\ [][NextRace]_vars

\* C27: when setPageRanks writes the scores computePageRank has computed, an id
\* of that map whose symbol was removed since the read has no hash symbol:<id>
\* after the write and is not in the pagerank sorted set.
ClaimC27 ==
  [][WriteRanks =>
       \A id \in SymIds :
         (computed.ranks[id] # 0 /\ ~hashExists(St, id))
           => (~hashExists([St EXCEPT !.symbols = symbols', !.rankField = rankField'], id)
               /\ id \notin pagerank')]_vars

(***************************************************************************)
(* addDependencies and getDependenciesFrom                                 *)
(***************************************************************************)
\* Storage.getDependenciesFrom(id): one edge for each member of deps:from:<id>,
\* its type read from the hash deps:from:<id>:to:<to>
edgesFrom(st, id) ==
  {Edge(id, e[2], edgeType(st, id, e[2])) : e \in {x \in st.depsFrom : x[1] = id}}

EdgeTypes == {"extends", "uses"}

\* the edges a list passed to addDependencies is made of
TypedEdges == {Edge(f, t, ty) : f \in SymIds, t \in SymIds \ {"b.ts:B:2"}, ty \in EdgeTypes}

\* lists of one or two edges, deduplicated by (from, to, type) as
\* SymbolExtractor.deduplicateDependencies leaves them
DepLists ==
  {<<e>> : e \in TypedEdges}
    \cup {q \in {<<e, g>> : e \in TypedEdges, g \in TypedEdges} : q[1] # q[2]}

\* Storage.addDependencies(D)
AddDependencies(D) ==
  /\ SetStore(addDependencies(St, D))
  /\ scenario' = "other"
  /\ lastRun' = <<>>
  /\ suggestedOrder' = <<>>
  /\ impactInput' = <<>>
  /\ directlyAffected' = <<>>
  /\ transitivelyAffected' = <<>>
  /\ dependentsInput' = <<>>
  /\ impactCount' = 0
  /\ pathInput' = <<>>
  /\ criticalPath' = [found |-> FALSE, path |-> <<>>]
  /\ UNCHANGED <<fs, mtime, lockVars, extractVars, debounceVars, rankVars>>

NextEdges == \E D \in DepLists : AddDependencies(D)

\* SpecEdges: addDependencies calls with deduplicated lists of edges between
\* three stored symbols
SpecEdges == InitImpact /\ [][NextEdges]_vars

\* C28: after addDependencies(D), getDependenciesFrom(from) returns, for every
\* edge (from, to, type) of D, an edge to 'to' with that type.
ClaimC28 ==
  [][\A D \in DepLists :
       AddDependencies(D)
         => \A e \in Range(D) :
              e \in edgesFrom([St EXCEPT !.depsFrom = depsFrom', !.edgeMeta = edgeMeta'],
                              e.from)]_vars

====
